---------------------------- MODULE Spec2Model ----------------------------
(***************************************************************************)
(* Model of src/app.py: a Streamlit CRUD page over one SQLite table,       *)
(* entries(id, name, age, email, created_at).                              *)
(*                                                                         *)
(* Two specifications are given.                                           *)
(*   Spec    the data access functions, called one statement at a time by  *)
(*           any number of sessions (each call is one SQLite transaction,  *)
(*           so calls of different sessions interleave at call level).     *)
(*   SpecUI  one session running main(): the script positions between two  *)
(*           data access calls are the values of pc.                       *)
(* Strings are sequences of characters; SQL NULL / Python None is NULL.    *)
(***************************************************************************)
EXTENDS Integers, Sequences, FiniteSets

VARIABLES
    tableExists,    \* the table entries (and sqlite_sequence) exists in data.db
    entries,        \* the rows of the table entries
    seq,            \* sqlite_sequence.seq of entries: the largest rowid ever used
    now,            \* the storage engine's clock, CURRENT_TIMESTAMP
    openConns,      \* connections of returned calls that are still open
    ret,            \* the last data access call: its id argument, its return value
    issued,         \* history: every id an insert has assigned so far
    pc,             \* position of the session's script run ("idle": waiting)
    submit,         \* the form button that started the current run
    df,             \* main's df: the list read by view_all, as displayed
    selected_id,    \* main's selected_id
    updShown,       \* the update form was rendered by the last run
    msg,            \* the inline message shown (st.error / st.success)
    wrote,          \* history: this interaction performed an update or a delete
    rerun_toggle,   \* st.session_state["_rerun_toggle"]
    rerunAvailable  \* st.experimental_rerun exists in the installed framework

dbVars == <<tableExists, entries, seq, now, openConns, ret, issued>>
uiVars == <<pc, submit, df, selected_id, updShown, msg, wrote, rerun_toggle,
            rerunAvailable>>
vars == <<tableExists, entries, seq, now, openConns, ret, issued, pc, submit,
          df, selected_id, updShown, msg, wrote, rerun_toggle, rerunAvailable>>

-----------------------------------------------------------------------------
(* Bounds of the model *)

MaxId == 3          \* inserts stop once this id has been assigned
MaxTime == 1        \* the clock stops here
MaxConns == 1       \* at most this many unclosed connections are tracked

(* Python None, SQL NULL *)
NULL == -1

(* st.number_input("Age", min_value=0, max_value=150, ...) *)
MinAge == 0
MaxAge == 150

-----------------------------------------------------------------------------
(* Pure helpers *)

Max(a, b) == IF a >= b THEN a ELSE b

Ids(rows) == {r.id : r \in rows}

MaxRowid(rows) == IF rows = {} THEN 0 ELSE CHOOSE i \in Ids(rows) : \A j \in Ids(rows) : j <= i

IsSpace(c) == c = " "

(* str.strip(): drop leading and trailing whitespace *)
RECURSIVE LStrip(_)
LStrip(s) ==
    IF s # <<>> /\ IsSpace(Head(s)) THEN LStrip(Tail(s)) ELSE s

RECURSIVE RStrip(_)
RStrip(s) ==
    IF s # <<>> /\ IsSpace(s[Len(s)]) THEN RStrip(SubSeq(s, 1, Len(s) - 1)) ELSE s

StripNot(s) == s

Strip(s) == RStrip(LStrip(s))

(* int(age) if age else None *)
AgeArgNot(age) == age

AgeArg(age) == IF age # 0 THEN age ELSE NULL

-----------------------------------------------------------------------------
(* The storage engine's statements, as functions of the table *)

(* CREATE TABLE IF NOT EXISTS entries (...): the table and its counter *)
CreateTableDropFirst(exists, rows, sq) == [rows |-> {}, seq |-> 0]

CreateTableIfNotExists(exists, rows, sq) ==
    IF exists THEN [rows |-> rows, seq |-> sq] ELSE [rows |-> {}, seq |-> 0]

(* id INTEGER PRIMARY KEY AUTOINCREMENT: one more than the largest rowid ever used *)
NextRowidNoAutoincrement(rows, sq) == MaxRowid(rows) + 1

NextRowid(rows, sq) == Max(sq, MaxRowid(rows)) + 1

(* INSERT INTO entries (name, age, email) VALUES (?, ?, ?) *)
InsertRowSwapped(rows, id, name, age, email, ts) ==
    rows \cup {[id |-> id, name |-> email, age |-> age, email |-> name, created_at |-> ts]}

InsertRow(rows, id, name, age, email, ts) ==
    rows \cup {[id |-> id, name |-> name, age |-> age, email |-> email, created_at |-> ts]}

(* UPDATE entries SET name = ?, age = ?, email = ? WHERE id = ? *)
UpdateRowsNoWhere(rows, id, name, age, email) ==
    {[r EXCEPT !.name = name, !.age = age, !.email = email] : r \in rows}

UpdateRows(rows, id, name, age, email) ==
    {IF r.id = id THEN [r EXCEPT !.name = name, !.age = age, !.email = email] ELSE r : r \in rows}

(* DELETE FROM entries WHERE id = ? *)
DeleteRowsUpTo(rows, id) == {r \in rows : r.id > id}

DeleteRows(rows, id) == {r \in rows : r.id # id}

(* SELECT * FROM entries ORDER BY id DESC *)
RECURSIVE SelectAllAsc(_)
SelectAllAsc(rows) ==
    IF rows = {} THEN <<>>
    ELSE LET m == CHOOSE r \in rows : \A q \in rows : r.id <= q.id
         IN  <<m>> \o SelectAllAsc(rows \ {m})

RECURSIVE SelectAllDesc(_)
SelectAllDesc(rows) ==
    IF rows = {} THEN <<>>
    ELSE LET m == CHOOSE r \in rows : \A q \in rows : q.id <= r.id
         IN  <<m>> \o SelectAllDesc(rows \ {m})

(* SELECT * FROM entries WHERE id = ?, fetchone(): the row, or none *)
SelectById(rows, id) ==
    IF \E r \in rows : r.id = id THEN {CHOOSE r \in rows : r.id = id} ELSE {}

-----------------------------------------------------------------------------
(* Connections.  get_conn opens a connection; "with conn:" commits on exit   *)
(* and does not close; no function calls conn.close().  The connection of a *)
(* returned call is closed when the runtime finalises the unreferenced      *)
(* object: at once under reference counting, at a later collection          *)
(* otherwise.  Both outcomes are possible.                                  *)

get_conn(n) == {n} \cup (IF n < MaxConns THEN {n + 1} ELSE {})

Finalize ==
    /\ openConns > 0
    /\ openConns' = openConns - 1
    /\ UNCHANGED <<tableExists, entries, seq, now, ret, issued>>

Tick ==
    /\ now < MaxTime
    /\ now' = now + 1
    /\ UNCHANGED <<tableExists, entries, seq, openConns, ret, issued>>

-----------------------------------------------------------------------------
(* Data access functions (each constrains the database variables only) *)

create_table ==
    LET t == CreateTableIfNotExists(tableExists, entries, seq) IN
    /\ tableExists' = TRUE
    /\ entries' = t.rows
    /\ seq' = t.seq
    /\ ret' = [op |-> "create_table", arg |-> NULL, val |-> NULL]
    /\ openConns' \in get_conn(openConns)
    /\ UNCHANGED <<now, issued>>

insert_entry(name, age, email) ==
    LET id == NextRowid(entries, seq) IN
    /\ tableExists
    /\ id <= MaxId
    /\ entries' = InsertRow(entries, id, name, age, email, now)
    /\ seq' = Max(seq, id)
    /\ ret' = [op |-> "insert_entry", arg |-> NULL, val |-> id]
    /\ issued' = issued \cup {id}
    /\ openConns' \in get_conn(openConns)
    /\ UNCHANGED <<tableExists, now>>

view_all ==
    /\ tableExists
    /\ ret' = [op |-> "view_all", arg |-> NULL, val |-> SelectAllDesc(entries)]
    /\ openConns' \in get_conn(openConns)
    /\ UNCHANGED <<tableExists, entries, seq, now, issued>>

get_entry_by_id(entry_id) ==
    /\ tableExists
    /\ ret' = [op |-> "get_entry_by_id", arg |-> entry_id, val |-> SelectById(entries, entry_id)]
    /\ openConns' \in get_conn(openConns)
    /\ UNCHANGED <<tableExists, entries, seq, now, issued>>

update_entry(entry_id, name, age, email) ==
    /\ tableExists
    /\ entries' = UpdateRows(entries, entry_id, name, age, email)
    /\ ret' = [op |-> "update_entry", arg |-> entry_id, val |-> NULL]
    /\ openConns' \in get_conn(openConns)
    /\ UNCHANGED <<tableExists, seq, now, issued>>

delete_entry(entry_id) ==
    /\ tableExists
    /\ entries' = DeleteRows(entries, entry_id)
    /\ ret' = [op |-> "delete_entry", arg |-> entry_id, val |-> NULL]
    /\ openConns' \in get_conn(openConns)
    /\ UNCHANGED <<tableExists, seq, now, issued>>

-----------------------------------------------------------------------------
(* Arguments the callers pass *)

EntryArgs ==
    {[name |-> <<"a">>, age |-> NULL, email |-> <<>>],
     [name |-> <<"b">>, age |-> 30, email |-> <<"x">>]}
IdArgs == 1 .. MaxId

Init ==
    /\ tableExists = FALSE
    /\ entries = {}
    /\ seq = 0
    /\ now = 0
    /\ openConns = 0
    /\ ret = [op |-> "none", arg |-> NULL, val |-> NULL]
    /\ issued = {}
    /\ pc = "idle"
    /\ submit = "none"
    /\ df = <<>>
    /\ selected_id = NULL
    /\ updShown = FALSE
    /\ msg = ""
    /\ wrote = FALSE
    /\ rerun_toggle = FALSE
    /\ rerunAvailable \in BOOLEAN

CallCreateTable == create_table /\ UNCHANGED uiVars

CallInsert ==
    /\ \E x \in EntryArgs : insert_entry(x.name, x.age, x.email)
    /\ UNCHANGED uiVars

CallViewAll == view_all /\ UNCHANGED uiVars

CallGetById ==
    /\ \E i \in IdArgs : get_entry_by_id(i)
    /\ UNCHANGED uiVars

CallUpdate ==
    /\ \E i \in IdArgs, x \in EntryArgs : update_entry(i, x.name, x.age, x.email)
    /\ UNCHANGED uiVars

CallDelete ==
    /\ \E i \in IdArgs : delete_entry(i)
    /\ UNCHANGED uiVars

ClockTick == Tick /\ UNCHANGED uiVars

Collect == Finalize /\ UNCHANGED uiVars

Next ==
    \/ CallCreateTable
    \/ CallInsert
    \/ CallViewAll
    \/ CallGetById
    \/ CallUpdate
    \/ CallDelete
    \/ ClockTick
    \/ Collect

Spec == Init /\ [][Next]_vars

-----------------------------------------------------------------------------
(* One session running main().  A run starts at "create_table" (line 115)  *)
(* and walks the script; the framework starts a run on a page load and on  *)
(* a form submission, and again when the script asks for a rerun.  The     *)
(* clock does not advance in SpecUI: created_at plays no part in a run.    *)

(* What the user types into a form: name, age (number_input), email *)
FormInputs ==
    {[name |-> <<>>, age |-> MinAge, email |-> <<>>],
     [name |-> <<" ">>, age |-> MaxAge, email |-> <<"x">>],
     [name |-> <<" ", "a", " ">>, age |-> MinAge, email |-> <<" ">>],
     [name |-> <<"a">>, age |-> 1, email |-> <<>>],
     [name |-> <<"b">>, age |-> MaxAge, email |-> <<"x", " ">>]}

(* build_options: the ids offered by the two record pickers *)
build_options(dataframe) == {dataframe[k].id : k \in 1 .. Len(dataframe)}

(* safe_rerun: st.experimental_rerun() raises the framework's rerun signal, *)
(* which is no Exception subclass, so the run ends and a new one starts;   *)
(* if the call is missing the except branch flips a session-state flag and *)
(* the script goes on at `next` (no rerun is scheduled by the assignment). *)
safe_rerun(next) ==
    IF rerunAvailable
    THEN /\ pc' = "create_table"
         /\ submit' = "none"
         /\ UNCHANGED rerun_toggle
    ELSE /\ rerun_toggle' = ~rerun_toggle
         /\ pc' = next
         /\ UNCHANGED submit

(* The page is opened or reloaded, or a picker is changed: a run, no button *)
Reload ==
    /\ pc = "idle"
    /\ pc' = "create_table"
    /\ submit' = "none"
    /\ wrote' = FALSE
    /\ UNCHANGED <<df, selected_id, updShown, msg, rerun_toggle, rerunAvailable>>
    /\ UNCHANGED dbVars

(* A form button is pressed; the form must be on the page *)
SubmitForm(button) ==
    /\ pc = "idle"
    /\ button = "add" => tableExists /\ seq < MaxId
    /\ button = "update" => updShown
    /\ button = "delete" => df # <<>>
    /\ pc' = "create_table"
    /\ submit' = button
    /\ wrote' = FALSE
    /\ UNCHANGED <<df, selected_id, updShown, msg, rerun_toggle, rerunAvailable>>
    /\ UNCHANGED dbVars

(* line 115; a run redraws the page: the old message goes, locals are new *)
RunCreateTable ==
    /\ pc = "create_table"
    /\ create_table
    /\ pc' = "add_form"
    /\ msg' = ""
    /\ selected_id' = NULL
    /\ UNCHANGED <<submit, df, updShown, wrote, rerun_toggle, rerunAvailable>>

(* lines 124-129 *)
add_submitted(name, age, email) ==
    /\ IF Strip(name) = <<>>
       THEN /\ msg' = "Name is required."
            /\ UNCHANGED dbVars
       ELSE /\ insert_entry(Strip(name), AgeArg(age), Strip(email))
            /\ msg' = "Added entry"
    /\ pc' = "view_all"
    /\ UNCHANGED <<submit, df, selected_id, updShown, wrote, rerun_toggle, rerunAvailable>>

RunAddForm ==
    /\ pc = "add_form"
    /\ \/ /\ submit = "add"
          /\ \E x \in FormInputs : add_submitted(x.name, x.age, x.email)
       \/ /\ submit # "add"
          /\ pc' = "view_all"
          /\ UNCHANGED <<submit, df, selected_id, updShown, msg, wrote, rerun_toggle,
                         rerunAvailable>>
          /\ UNCHANGED dbVars

(* lines 135-152: the list is read and shown; an empty list ends the run *)
RunViewAll ==
    /\ pc = "view_all"
    /\ view_all
    /\ df' = ret'.val
    /\ IF df' = <<>>
       THEN pc' = "idle" /\ updShown' = FALSE
       ELSE pc' = "select" /\ UNCHANGED updShown
    /\ UNCHANGED <<submit, selected_id, msg, wrote, rerun_toggle, rerunAvailable>>

(* lines 153-163: the picked record is read again *)
RunSelect ==
    /\ pc = "select"
    /\ \E i \in build_options(df) :
         /\ selected_id' = i
         /\ get_entry_by_id(i)
    /\ IF ret'.val # {}
       THEN pc' = "update_form" /\ updShown' = TRUE
       ELSE pc' = "delete_form" /\ updShown' = FALSE
    /\ UNCHANGED <<submit, df, msg, wrote, rerun_toggle, rerunAvailable>>

(* lines 172-178 *)
update_submitted(name, age, email) ==
    /\ IF Strip(name) = <<>>
       THEN /\ msg' = "Name cannot be empty"
            /\ pc' = "delete_form"
            /\ UNCHANGED <<submit, wrote, rerun_toggle>>
            /\ UNCHANGED dbVars
       ELSE /\ update_entry(selected_id, Strip(name), AgeArg(age), Strip(email))
            /\ msg' = "Record updated."
            /\ wrote' = TRUE
            /\ safe_rerun("delete_form")
    /\ UNCHANGED <<df, selected_id, updShown, rerunAvailable>>

RunUpdateForm ==
    /\ pc = "update_form"
    /\ \/ /\ submit = "update"
          /\ \E x \in FormInputs : update_submitted(x.name, x.age, x.email)
       \/ /\ submit # "update"
          /\ pc' = "delete_form"
          /\ UNCHANGED <<submit, df, selected_id, updShown, msg, wrote, rerun_toggle,
                         rerunAvailable>>
          /\ UNCHANGED dbVars

(* lines 189-195 *)
delete_submitted(del_id, confirm) ==
    /\ IF ~confirm
       THEN /\ msg' = "Please confirm deletion by checking the box."
            /\ pc' = "idle"
            /\ UNCHANGED <<submit, wrote, rerun_toggle>>
            /\ UNCHANGED dbVars
       ELSE /\ delete_entry(del_id)
            /\ msg' = "Record deleted."
            /\ wrote' = TRUE
            /\ safe_rerun("idle")
    /\ UNCHANGED <<df, selected_id, updShown, rerunAvailable>>

RunDeleteForm ==
    /\ pc = "delete_form"
    /\ \/ /\ submit = "delete"
          /\ \E d \in build_options(df), c \in BOOLEAN : delete_submitted(d, c)
       \/ /\ submit # "delete"
          /\ pc' = "idle"
          /\ UNCHANGED <<submit, df, selected_id, updShown, msg, wrote, rerun_toggle,
                         rerunAvailable>>
          /\ UNCHANGED dbVars

NextUI ==
    \/ Reload
    \/ \E b \in {"add", "update", "delete"} : SubmitForm(b)
    \/ RunCreateTable
    \/ RunAddForm
    \/ RunViewAll
    \/ RunSelect
    \/ RunUpdateForm
    \/ RunDeleteForm
    \/ Collect

SpecUI == Init /\ [][NextUI]_vars

-----------------------------------------------------------------------------
(* Properties of the data access layer, checked under Spec *)

(* C1: insert_entry adds exactly one row holding the three values given,   *)
(* with an id no row of the table had before and a non-null created_at,    *)
(* returns that row's id, and leaves every pre-existing row unchanged.     *)
C1_InsertAddsOneRow ==
    [][\A x \in EntryArgs :
         insert_entry(x.name, x.age, x.email) =>
           \E r \in entries' :
              /\ r.id \notin Ids(entries)
              /\ r.name = x.name /\ r.age = x.age /\ r.email = x.email
              /\ r.created_at # NULL
              /\ ret'.val = r.id
              /\ entries' \ {r} = entries
              /\ Cardinality(entries') = Cardinality(entries) + 1]_vars

C1_Witness ==
    /\ ret.op = "insert_entry"
    /\ Cardinality(entries) >= 2
    /\ \E r \in entries : r.id = ret.val /\ r.created_at > 0

(* C3: update_entry on an id that exists overwrites name, age and email of *)
(* exactly that row and leaves its id and created_at, and every other row, *)
(* unchanged; on an id no row has it returns as well (a step of            *)
(* update_entry is a call that returned) and leaves the table unchanged.   *)
C3_UpdateFrame ==
    [][\A i \in IdArgs, x \in EntryArgs :
         update_entry(i, x.name, x.age, x.email) =>
           /\ ret'.op = "update_entry"
           /\ Cardinality(entries') = Cardinality(entries)
           /\ \A r \in entries :
                IF r.id = i
                THEN [r EXCEPT !.name = x.name, !.age = x.age, !.email = x.email] \in entries'
                ELSE r \in entries'
           /\ (i \notin Ids(entries) => entries' = entries)]_vars

C3_Witness ==
    /\ ret.op = "update_entry"
    /\ ret.arg \in Ids(entries)
    /\ Cardinality(entries) >= 2
    /\ \E r \in entries : r.id = ret.arg /\ r.created_at < now

(* C4: delete_entry on an id that exists removes exactly the row with that *)
(* id and leaves every other row unchanged; on an id no row has it returns *)
(* as well and leaves the table unchanged.                                 *)
C4_DeleteFrame ==
    [][\A i \in IdArgs :
         delete_entry(i) =>
           /\ ret'.op = "delete_entry"
           /\ entries' \subseteq entries
           /\ \A r \in entries : r.id # i => r \in entries'
           /\ i \notin Ids(entries')
           /\ (i \notin Ids(entries) => entries' = entries)]_vars

C4_Witness ==
    /\ ret.op = "delete_entry"
    /\ ret.arg \notin Ids(entries)
    /\ \E r \in entries : r.id < ret.arg
    /\ \E r \in entries : r.id > ret.arg

(* C5: no two rows share an id; no step changes the id of a row that stays *)
(* (a new id appears only together with one added row, and a row that      *)
(* keeps its id keeps its created_at); and a new id is never one that an   *)
(* earlier insert assigned, also after the row holding it was deleted.     *)
C5_IdsUniqueNeverReused ==
    [][/\ \A r, q \in entries' : r.id = q.id => r = q
       /\ Cardinality(Ids(entries') \ Ids(entries)) <= 1
       /\ \A i \in Ids(entries') \ Ids(entries) :
            /\ i \notin issued
            /\ Cardinality(entries') = Cardinality(entries) + 1
       /\ \A r \in entries : r.id \in Ids(entries') =>
            \E q \in entries' : q.id = r.id /\ q.created_at = r.created_at]_vars

C5_Witness ==
    /\ ret.op = "insert_entry"
    /\ ret.val = 3
    /\ Ids(entries) = {1, 3}
    /\ issued = {1, 2, 3}

(* C6: view_all returns every row of the table exactly once, in strictly   *)
(* descending order of id (ids 1, 2, 3 are returned as 3, 2, 1).           *)
C6_ViewAllDescending ==
    [][view_all =>
         LET v == ret'.val IN
         /\ Len(v) = Cardinality(entries)
         /\ {v[k] : k \in 1 .. Len(v)} = entries
         /\ \A k \in 1 .. Len(v) - 1 : v[k].id > v[k + 1].id]_vars

C6_Witness ==
    /\ ret.op = "view_all"
    /\ Len(ret.val) = 3
    /\ ret.val[1].id = 3 /\ ret.val[2].id = 2 /\ ret.val[3].id = 1

(* C8: create_table run on a database where the table exists leaves every  *)
(* row unchanged, leaves the table in place, and does not change the id    *)
(* the next insert will assign.                                            *)
C8_CreateTableIdempotent ==
    [][(tableExists /\ create_table) =>
         /\ tableExists'
         /\ entries' = entries
         /\ seq' = seq
         /\ NextRowid(entries', seq') = NextRowid(entries, seq)]_vars

C8_Witness ==
    /\ ret.op = "create_table"
    /\ entries # {}
    /\ seq > MaxRowid(entries)

(* C10: after any sequence of calls, no connection opened by a returned    *)
(* call is still open.                                                     *)
C10_NoConnectionLeftOpen == openConns = 0

-----------------------------------------------------------------------------
(* Properties of the form handling, checked under SpecUI *)

(* the text is empty once whitespace is trimmed *)
IsBlank(s) == \A k \in 1 .. Len(s) : s[k] = " "

(* C2: a submission that fails validation (add or update with a name that  *)
(* is blank, delete without the confirmation) makes no storage call: the   *)
(* table, its id counter and the record of the last call stay as they are. *)
C2_RejectedSubmissionNoWrite ==
    [][\A x \in FormInputs, d \in IdArgs :
         /\ (pc = "add_form" /\ submit = "add" /\ IsBlank(x.name)
               /\ add_submitted(x.name, x.age, x.email))
              => UNCHANGED <<tableExists, entries, seq, ret>>
         /\ (pc = "update_form" /\ submit = "update" /\ IsBlank(x.name)
               /\ update_submitted(x.name, x.age, x.email))
              => UNCHANGED <<tableExists, entries, seq, ret>>
         /\ (pc = "delete_form" /\ submit = "delete" /\ delete_submitted(d, FALSE))
              => UNCHANGED <<tableExists, entries, seq, ret>>]_vars

C2_Witness ==
    /\ msg = "Name is required."
    /\ pc = "idle"
    /\ entries # {}

(* C7: every stored age is null or an integer in [1, 150]; a submission of *)
(* the add or update form with age input 0 stores null, and one with age   *)
(* input n in [1, 150] stores n.                                           *)
C7_StoredAge ==
    [][/\ \A r \in entries' : r.age = NULL \/ r.age \in 1 .. MaxAge
       /\ \A x \in FormInputs :
            LET stored == IF x.age = 0 THEN NULL ELSE x.age IN
            /\ (pc = "add_form" /\ submit = "add" /\ ~IsBlank(x.name)
                  /\ add_submitted(x.name, x.age, x.email))
                 => \E r \in entries' \ entries : r.age = stored
            /\ (pc = "update_form" /\ submit = "update" /\ ~IsBlank(x.name)
                  /\ update_submitted(x.name, x.age, x.email))
                 => \A r \in entries' : r.id = selected_id => r.age = stored]_vars

C7_Witness ==
    /\ msg = "Record updated."
    /\ \E r \in entries : r.age = NULL
    /\ \E r \in entries : r.age = 1
    /\ \E r \in entries : r.age = MaxAge

(* C9: once the session is waiting again after a successful update or      *)
(* delete submission, the displayed list is the table as that write left   *)
(* it (no other session writes in SpecUI).                                 *)
C9_DisplayShowsWrite ==
    (pc = "idle" /\ wrote) => df = SelectAllDesc(entries)

(* C9 on the path where the framework's rerun call exists *)
C9_DisplayShowsWriteIfRerunAvailable ==
    (rerunAvailable /\ pc = "idle" /\ wrote) => df = SelectAllDesc(entries)

C9_RerunPathReached ==
    rerunAvailable /\ pc = "idle" /\ wrote /\ entries # {}

=============================================================================
